---- MODULE Spec2Model ----
(***************************************************************************)
(* Model of the two developer scripts of paraty-go-formulario:             *)
(*   src/test-responsive.js  regex-based analysis of inline CSS            *)
(*   src/test-visual.js      screenshot capture over pages x viewports     *)
(*                                                                         *)
(* Text is modelled as a sequence of lexemes (strings).  Every lexeme is   *)
(* atomic: a regular expression of the source is evaluated lexeme by       *)
(* lexeme, a number is a run of digit lexemes, white space is the lexeme   *)
(* " " or "\n".  The property name max-width is the two lexemes "max-"     *)
(* and "width:", so that /width:\s*\d{3,}px/ finds it as the source does.  *)
(***************************************************************************)
EXTENDS Integers, Sequences, FiniteSets, TLC

VARIABLES
    \* ---- test-responsive.js
    pc,         \* position of main(): "loop", "report", "exit", "exited"; "call"/"done" for a bare analyzeCSS call
    fsys,       \* the directory: file name -> [exists, content]
    fileIdx,    \* index into files of the for..of loop
    css,        \* the corpus handed to analyzeCSS
    analysis,   \* the value analyzeCSS returned last
    passed, warnings, issues,   \* the three module-level accumulators
    report,     \* what printReport returned: [calls, score]
    exitCode,   \* argument of process.exit, -1 while running
    \* ---- test-visual.js
    vpc,        \* position of captureScreenshots()
    pageIdx, vpIdx,     \* the two nested for..of loops
    results,    \* [total, captured, issues]
    smallTouchTargets,  \* the local of the same name, as last computed
    openPages,  \* pages opened by browser.newPage() and not yet closed
    failedPairs,        \* the <<page, viewport>> pairs whose page.goto threw
    browserOpen,
    vExit       \* argument of process.exit, -1 while running

avars == <<pc, fsys, fileIdx, css, analysis, passed, warnings, issues, report, exitCode>>
vvars == <<vpc, pageIdx, vpIdx, results, smallTouchTargets, openPages, failedPairs, browserOpen, vExit>>
vars == <<avars, vvars>>

----------------------------------------------------------------------------
(* Lexemes and the regular-expression primitives                           *)

DigitSeq == <<"0", "1", "2", "3", "4", "5", "6", "7", "8", "9">>

IsDigit(t) == \E i \in 1..10 : DigitSeq[i] = t

DigitVal(t) == (CHOOSE i \in 1..10 : DigitSeq[i] = t) - 1

\* \s
IsWs(t) == t \in {" ", "\n"}

\* the lexeme at position i, "" past either end
Tok(s, i) == IF i \in 1..Len(s) THEN s[i] ELSE ""

\* \s* from position i: the first position that is not white space
RECURSIVE SkipWs(_, _)
SkipWs(s, i) == IF IsWs(Tok(s, i)) THEN SkipWs(s, i + 1) ELSE i

\* \d* from position i: the first position that is not a digit
RECURSIVE DigitsEnd(_, _)
DigitsEnd(s, i) == IF IsDigit(Tok(s, i)) THEN DigitsEnd(s, i + 1) ELSE i

\* parseInt of a run of decimal digits
RECURSIVE ParseInt(_)
ParseInt(ds) ==
    IF ds = <<>> THEN 0
    ELSE 10 * ParseInt(SubSeq(ds, 1, Len(ds) - 1)) + DigitVal(ds[Len(ds)])

\* \s*\d{n,}px matched at position i: the position of "px", 0 when it fails.
\* The digits are taken greedily; giving one back never helps, as "px" is no digit.
NumPxEnd(s, i, n) ==
    LET j == SkipWs(s, i)
        k == DigitsEnd(s, j)
    IN  IF k - j >= n /\ Tok(s, k) = "px" THEN k ELSE 0

\* /a\s*b/.test(s) for two lexemes a and b
HasLitWsLit(s, a, b) ==
    \E i \in 1..Len(s) : s[i] = a /\ Tok(s, SkipWs(s, i + 1)) = b

\* w.match(/\d+/)[0]: the first maximal run of digits of w
FirstDigitRun(w) ==
    LET i == CHOOSE p \in 1..Len(w) :
                 IsDigit(w[p]) /\ \A q \in 1..(p - 1) : ~IsDigit(w[q])
    IN  SubSeq(w, i, DigitsEnd(w, i) - 1)

\* a conditional push
PushIf(c, x) == IF c THEN <<x>> ELSE <<>>

----------------------------------------------------------------------------
(* analyzeCSS (src/test-responsive.js:64-167)                              *)

\* content.match(/@media[^{]+\{/g) || []: the scan from position i.  A match starts
\* at "@media", takes one or more lexemes that are not "{" and ends at the first "{";
\* the scan goes on after the match.
RECURSIVE MediaScan(_, _)
MediaScan(content, i) ==
    IF i > Len(content) THEN <<>>
    ELSE IF content[i] = "@media"
            /\ \E j \in (i + 2)..Len(content) :
                   content[j] = "{" /\ \A k \in (i + 1)..(j - 1) : content[k] # "{"
         THEN LET j == CHOOSE e \in (i + 2)..Len(content) :
                           content[e] = "{" /\ \A k \in (i + 1)..(e - 1) : content[k] # "{"
              IN  <<SubSeq(content, i, j)>> \o MediaScan(content, j + 1)
         ELSE MediaScan(content, i + 1)

mediaQueries(content) == MediaScan(content, 1)

\* mq.match(/max-width:\s*(\d+)px/) with kind "max-", /min-width:.../ with kind
\* "min-": without the g flag this is the FIRST match of mq only.  The result is
\* <<parseInt(match[1])>>, or <<>> when there is no match.
FirstWidthMatch(mq, kind) ==
    LET At(i) == /\ Tok(mq, i) = kind
                 /\ Tok(mq, i + 1) = "width:"
                 /\ NumPxEnd(mq, i + 2, 1) # 0
    IN  IF \E i \in 1..Len(mq) : At(i)
        THEN LET i == CHOOSE p \in 1..Len(mq) : At(p) /\ \A q \in 1..(p - 1) : ~At(q)
                 j == SkipWs(mq, i + 2)
             IN  <<ParseInt(SubSeq(mq, j, NumPxEnd(mq, i + 2, 1) - 1))>>
        ELSE <<>>

\* the forEach of lines 72-81: per media query the max-width value, then the min-width value
RECURSIVE BreakpointsOf(_)
BreakpointsOf(mqs) ==
    IF mqs = <<>> THEN <<>>
    ELSE FirstWidthMatch(Head(mqs), "max-") \o FirstWidthMatch(Head(mqs), "min-")
         \o BreakpointsOf(Tail(mqs))

mqBreakpoints(content) == BreakpointsOf(mediaQueries(content))

\* mqBreakpoints.some(bp => ...), lines 84-86
hasTablet(content) ==
    \E k \in 1..Len(mqBreakpoints(content)) :
        mqBreakpoints(content)[k] >= 600 /\ mqBreakpoints(content)[k] <= 900
hasMobile(content) ==
    \E k \in 1..Len(mqBreakpoints(content)) : mqBreakpoints(content)[k] <= 500
hasLaptop(content) ==
    \E k \in 1..Len(mqBreakpoints(content)) :
        mqBreakpoints(content)[k] >= 1000 /\ mqBreakpoints(content)[k] <= 1100

\* content.match(/<prop>\s*\d{3,}px/g) || [] for a property lexeme prop, from position i
RECURSIVE PropPxScan(_, _, _)
PropPxScan(content, prop, i) ==
    IF i > Len(content) THEN <<>>
    ELSE IF content[i] = prop /\ NumPxEnd(content, i + 1, 3) # 0
         THEN LET e == NumPxEnd(content, i + 1, 3)
              IN  <<SubSeq(content, i, e)>> \o PropPxScan(content, prop, e + 1)
         ELSE PropPxScan(content, prop, i + 1)

fixedWidths(content) == PropPxScan(content, "width:", 1)

\* the filter of lines 106-109
IsLargeWidth(w) == ParseInt(FirstDigitRun(w)) > 400

largeFixedWidths(content) == SelectSeq(fixedWidths(content), IsLargeWidth)

\* /\d+(\.\d+)?(vw|vh|rem|em|%|clamp)/: digits, an optional fraction, then one of the
\* six alternatives directly after the number
UnitAlternatives == {"vw", "vh", "rem", "em", "%", "clamp"}

hasResponsiveUnits(content) ==
    \E i \in 1..Len(content) :
        /\ IsDigit(content[i])
        /\ LET j == DigitsEnd(content, i)
           IN  \/ Tok(content, j) \in UnitAlternatives
               \/ /\ Tok(content, j) = "."
                  /\ IsDigit(Tok(content, j + 1))
                  /\ Tok(content, DigitsEnd(content, j + 1)) \in UnitAlternatives

hasFlexbox(content) == HasLitWsLit(content, "display:", "flex")
hasGrid(content) == HasLitWsLit(content, "display:", "grid")
hasOverflowControl(content) == HasLitWsLit(content, "overflow-x:", "hidden")
hasClampFonts(content) == HasLitWsLit(content, "font-size:", "clamp")

largePaddings(content) == PropPxScan(content, "padding:", 1)

\* /max-width:\s*100%/
hasMaxWidth100(content) ==
    \E i \in 1..Len(content) :
        /\ content[i] = "max-" /\ Tok(content, i + 1) = "width:"
        /\ LET j == SkipWs(content, i + 2)
           IN  /\ Tok(content, j) = "1" /\ Tok(content, j + 1) = "0"
               /\ Tok(content, j + 2) = "0" /\ Tok(content, j + 3) = "%"

\* The messages of the Findings
TabletPass == "Breakpoint para tablet (768px) definido"
TabletWarning == "Falta breakpoint específico para tablet (~768px)"
MobilePass == "Breakpoint para mobile definido"
MobileIssue == "Falta breakpoint para mobile pequeno (~480px)"
FixedWidthWarning(n) == ToString(n) \o " larguras fixas > 400px encontradas"
FixedWidthPass == "Sem larguras fixas problemáticas"
UnitsPass == "Usa unidades responsivas (vw, vh, rem, em, %, clamp)"
LayoutPass == "Usa Flexbox/Grid para layout"
OverflowPass == "Controle de overflow horizontal"
OverflowWarning == "Considere adicionar overflow-x: hidden no body"
ClampPass == "Usa clamp() para fontes responsivas"
PaddingWarning(n) == ToString(n) \o " paddings > 100px encontrados"
ImagesPass == "Imagens com max-width: 100%"

\* cssPassed without the else branch of lines 114-117
cssPassedNoElse(content) ==
    PushIf(hasTablet(content), TabletPass)
    \o PushIf(hasMobile(content), MobilePass)
    \o PushIf(hasResponsiveUnits(content), UnitsPass)
    \o PushIf(hasFlexbox(content) \/ hasGrid(content), LayoutPass)
    \o PushIf(hasOverflowControl(content), OverflowPass)
    \o PushIf(hasClampFonts(content), ClampPass)
    \o PushIf(hasMaxWidth100(content), ImagesPass)

\* what one call of analyzeCSS pushes on passed, in the order of the pushes
cssPassed(content) ==
    PushIf(hasTablet(content), TabletPass)
    \o PushIf(hasMobile(content), MobilePass)
    \o PushIf(Len(largeFixedWidths(content)) = 0, FixedWidthPass)
    \o PushIf(hasResponsiveUnits(content), UnitsPass)
    \o PushIf(hasFlexbox(content) \/ hasGrid(content), LayoutPass)
    \o PushIf(hasOverflowControl(content), OverflowPass)
    \o PushIf(hasClampFonts(content), ClampPass)
    \o PushIf(hasMaxWidth100(content), ImagesPass)

\* what one call of analyzeCSS pushes on warnings
cssWarnings(content) ==
    PushIf(~hasTablet(content), TabletWarning)
    \o PushIf(Len(largeFixedWidths(content)) > 0,
              FixedWidthWarning(Len(largeFixedWidths(content))))
    \o PushIf(~hasOverflowControl(content), OverflowWarning)
    \o PushIf(Len(largePaddings(content)) > 0, PaddingWarning(Len(largePaddings(content))))

\* what one call of analyzeCSS pushes on issues
cssIssues(content) == PushIf(~hasMobile(content), MobileIssue)

\* the value analyzeCSS returns
cssAnalysis(content) ==
    [mqBreakpoints |-> mqBreakpoints(content),
     hasTablet |-> hasTablet(content),
     hasMobile |-> hasMobile(content)]

----------------------------------------------------------------------------
(* analyzeElements (src/test-responsive.js:172-219)                        *)

\* criticalElements; bare is selector.substring(1)
criticalElements == <<
    [selector |-> ".container", bare |-> "container", name |-> "Container principal"],
    [selector |-> ".hero", bare |-> "hero", name |-> "Seção Hero"],
    [selector |-> ".logo", bare |-> "logo", name |-> "Logo"],
    [selector |-> ".form-section", bare |-> "form-section", name |-> "Formulário"],
    [selector |-> ".submit-btn", bare |-> "submit-btn", name |-> "Botão de envio"],
    [selector |-> ".form-grid", bare |-> "form-grid", name |-> "Grid do formulário"],
    [selector |-> ".text-block", bare |-> "text-block", name |-> "Blocos de texto"],
    [selector |-> ".benefits-grid", bare |-> "benefits-grid", name |-> "Grid de benefícios"],
    [selector |-> ".benefit-card", bare |-> "benefit-card", name |-> "Cards de benefício"],
    [selector |-> ".partnership-container", bare |-> "partnership-container",
     name |-> "Seção parceria"] >>

\* The lexemes of the model that hold a catalog name as a proper part: for these
\* String.includes(bare) is true although the lexeme is no catalog selector.
PartOf == { <<".partnership-container", "container">>, <<".hero-title", "hero">>,
            <<".logo-img", "logo">> }

\* lexeme.includes(bare)
Includes(lexeme, bare) ==
    lexeme = bare \/ lexeme = "." \o bare \/ <<lexeme, bare>> \in PartOf

\* content.match(new RegExp(`\\${el.selector}\\s*\\{[^}]*\\}`, 'g')) has a match:
\* the selector, white space, "{", and a "}" somewhere after it
HasBlock(content, el) ==
    \E i \in 1..Len(content) :
        /\ content[i] = el.selector
        /\ LET j == SkipWs(content, i + 1)
           IN  Tok(content, j) = "{" /\ \E k \in (j + 1)..Len(content) : content[k] = "}"

\* hasResponsive with the loop of line 201 started at fragment 0: the name anywhere
\* in a corpus that holds "@media"
hasResponsiveFromZero(content, el) ==
    /\ \E m \in 1..Len(content) : content[m] = "@media"
    /\ \E k \in 1..Len(content) : Includes(content[k], el.bare)

\* lines 198-206: some fragment of content.split('@media') after the first one
\* includes the bare name, that is, the name occurs after the first "@media"
hasResponsive(content, el) ==
    \E m \in 1..Len(content) :
        /\ content[m] = "@media"
        /\ \E k \in (m + 1)..Len(content) : Includes(content[k], el.bare)

ElementPass(el) == el.name \o ": tem estilos responsivos"
ElementWarning(el) == el.name \o ": pode precisar de ajustes mobile"

\* what analyzeElements pushes on passed for the catalog entries from n on
RECURSIVE elPassedFrom(_, _)
elPassedFrom(content, n) ==
    IF n > Len(criticalElements) THEN <<>>
    ELSE LET el == criticalElements[n]
         IN  PushIf(HasBlock(content, el) /\ hasResponsive(content, el), ElementPass(el))
             \o elPassedFrom(content, n + 1)

\* what analyzeElements pushes on warnings for the catalog entries from n on
RECURSIVE elWarningsFrom(_, _)
elWarningsFrom(content, n) ==
    IF n > Len(criticalElements) THEN <<>>
    ELSE LET el == criticalElements[n]
         IN  PushIf(HasBlock(content, el) /\ ~hasResponsive(content, el), ElementWarning(el))
             \o elWarningsFrom(content, n + 1)

elPassed(content) == elPassedFrom(content, 1)
elWarnings(content) == elWarningsFrom(content, 1)

----------------------------------------------------------------------------
(* printReport and main (src/test-responsive.js:302-380)                   *)

files == <<"index.html", "confirmacao.html">>

\* Math.floor in place of Math.round
Floor100(p, t) == (100 * p) \div t

\* Math.round(x) for x = 100 * p / t >= 0: the nearest integer, halves upwards.
\* A run pushes at most 19 Findings per file, 38 in all; for every total below 40
\* the double (p / t) * 100 rounds to the same integer as the exact quotient
\* (23 / 40 is the first pair that does not), so the integer form is exact here.
Round100(p, t) == (200 * p + t) \div (2 * t)

\* line 323: 0 / 0 is NaN, and Math.round(NaN * 100) is NaN
score(p, w, i) ==
    IF p + w + i = 0 THEN [nan |-> TRUE, value |-> 0]
    ELSE [nan |-> FALSE, value |-> Round100(p, p + w + i)]

\* lines 325-335: every comparison with NaN is false
statusMsg(sc) ==
    IF ~sc.nan /\ sc.value >= 90 THEN "EXCELENTE! Responsividade OK"
    ELSE IF ~sc.nan /\ sc.value >= 70 THEN "BOM, mas pode melhorar"
    ELSE "PRECISA DE MELHORIAS"

\* exitStatus with the warnings counted as well
exitStatusCountsWarnings(iss) == IF Len(iss) + Len(warnings) > 0 THEN 1 ELSE 0

\* line 377: report.issues.length > 0 ? 1 : 0
exitStatus(iss) == IF Len(iss) > 0 THEN 1 ELSE 0

IsStyleOpen(t) == t \in {"<style", "<STYLE"}
IsStyleClose(t) == t \in {"</style>", "</STYLE>"}

\* content.match(/<style[^>]*>([\s\S]*?)<\/style>/gi), from position i: "<style",
\* lexemes up to the first ">", then as little as possible up to "</style>".
\* (Inside an opening tag the documents of the model hold attribute lexemes only.)
RECURSIVE StyleScan(_, _)
StyleScan(content, i) ==
    LET Gt(j) == content[j] = ">" /\ \A k \in (i + 1)..(j - 1) : content[k] # ">"
        Close(j, e) == IsStyleClose(content[e])
                       /\ \A k \in (j + 1)..(e - 1) : ~IsStyleClose(content[k])
    IN  IF i > Len(content) THEN <<>>
        ELSE IF IsStyleOpen(content[i])
                /\ \E j \in (i + 1)..Len(content) :
                       Gt(j) /\ \E e \in (j + 1)..Len(content) : Close(j, e)
             THEN LET j == CHOOSE g \in (i + 1)..Len(content) : Gt(g)
                      e == CHOOSE c \in (j + 1)..Len(content) : Close(j, c)
                  IN  <<SubSeq(content, i, e)>> \o StyleScan(content, e + 1)
             ELSE StyleScan(content, i + 1)

styleMatch(content) == StyleScan(content, 1)

\* styleMatch.join('\n')
RECURSIVE Join(_)
Join(ms) ==
    IF ms = <<>> THEN <<>>
    ELSE IF Len(ms) = 1 THEN ms[1]
    ELSE ms[1] \o <<"\n">> \o Join(Tail(ms))

----------------------------------------------------------------------------
(* The inputs: corpora and documents built from CSS fragments              *)

\* the decimal digits of n, the inverse of ParseInt
RECURSIVE Digits(_)
Digits(n) == IF n < 10 THEN <<DigitSeq[n + 1]>> ELSE Digits(n \div 10) \o <<DigitSeq[(n % 10) + 1]>>

\* (max-width: 480px)
Cond(kind, n) == <<"(", kind, "width:", " ">> \o Digits(n) \o <<"px", ")">>

\* @media (max-width: 480px) {
Media1(kind, n) == <<"@media", " ">> \o Cond(kind, n) \o <<" ", "{">>

\* @media (max-width: 900px), (max-width: 480px) {
Media2(k1, n1, k2, n2) ==
    <<"@media", " ">> \o Cond(k1, n1) \o <<",", " ">> \o Cond(k2, n2) \o <<" ", "{">>

\* width: 401px;
WidthDecl(n) == <<"width:", " ">> \o Digits(n) \o <<"px", ";">>

ClampPx == <<"font-size:", " ", "clamp", "(">> \o Digits(16) \o <<"px", ",", " ">>
           \o Digits(24) \o <<"px", ")", ";">>
ClampRem == <<"font-size:", "clamp", "(", "1", "rem", ",", " ", "2", "vw", ")", ";">>

RuleFragments ==
    { Media1("max-", 480), Media1("max-", 500), Media1("max-", 501),
      Media1("min-", 500), Media1("max-", 768),
      Media2("max-", 900, "max-", 480),
      <<"@media", "{">>,
      WidthDecl(99), WidthDecl(400), WidthDecl(401),
      <<"max-", "width:", " ">> \o Digits(600) \o <<"px", ";">>,
      <<"max-", "width:", " ", "1", "0", "0", "%", ";">>,
      ClampPx, ClampRem,
      <<"line-height:", " ", "1", ".", "5", "em", ";">>,
      <<"display:", " ", "flex", ";">>,
      <<"overflow-x:", "hidden", ";">>,
      <<"padding:", " ">> \o Digits(120) \o <<"px", ";">> }

\* the bound on the number of fragments of a corpus
MaxFrags == 2

RECURSIVE CorporaOf(_)
CorporaOf(n) ==
    IF n = 0 THEN {<<>>}
    ELSE LET prev == CorporaOf(n - 1)
         IN  prev \cup {c \o f : c \in prev, f \in RuleFragments}

RuleCorpora == CorporaOf(MaxFrags)

\* The accumulators a call of analyzeCSS may find: empty, or filled by an earlier file
PriorFindings ==
    { [p |-> <<>>, w |-> <<>>, i |-> <<>>],
      [p |-> <<FixedWidthPass>>, w |-> <<OverflowWarning>>, i |-> <<MobileIssue>>] }

\* <style> bodies of the documents
StyleOf(open, body) == open \o body \o <<"</style>">>

StyleBlocks ==
    { StyleOf(<<"<style", ">">>, <<>>),
      StyleOf(<<"<style", ">">>,
              Media1("max-", 480) \o <<".logo", " ", "{", "}", "}", "overflow-x:", " ", "hidden", ";">>),
      StyleOf(<<"<STYLE", " ", "type=text/css", ">">>,
              <<".logo", "{">> \o WidthDecl(500) \o <<"}", ".hero", " ", "{", "display:", "grid", "}">>),
      StyleOf(<<"<style", ">">>,
              Media1("max-", 768) \o <<".hero-title", "{", "}", "}">>
              \o <<".hero", "{", "font-size:", "2", "rem", "}">>),
      StyleOf(<<"<style", ">">>,
              Media1("min-", 320) \o <<"}">> \o Media1("max-", 800) \o <<"}">>
              \o <<"display:", "flex", ";", "overflow-x:", "hidden", ";">> \o ClampRem
              \o <<"max-", "width:", "1", "0", "0", "%", ";">>) }

\* the bound on the number of <style> blocks of a document
MaxBlocks == 1

RECURSIVE BlockSeqs(_)
BlockSeqs(n) ==
    IF n = 0 THEN {<<>>}
    ELSE LET prev == BlockSeqs(n - 1)
         IN  prev \cup {d \o <<"<p>">> \o b : d \in prev, b \in StyleBlocks}

\* the documents: no <style> block at all, an unclosed one, or up to MaxBlocks blocks
Docs == {<<"<html>">> \o d \o <<"</html>">> : d \in BlockSeqs(MaxBlocks)}
        \cup {<<"<html>", "<style", ">", ".logo", "{", "}", "</html>">>}

FileStates == {[exists |-> FALSE, content |-> <<>>]}
              \cup {[exists |-> TRUE, content |-> d] : d \in Docs}

FileNames == {files[k] : k \in 1..Len(files)}

----------------------------------------------------------------------------
(* The state machines                                                      *)

NoAnalysis == [mqBreakpoints |-> <<>>, hasTablet |-> FALSE, hasMobile |-> FALSE]

\* test-visual.js before captureScreenshots has started
VisualIdle ==
    /\ vpc = "idle"
    /\ pageIdx = 1 /\ vpIdx = 1
    /\ results = [total |-> 0, captured |-> 0, issues |-> <<>>]
    /\ smallTouchTargets = <<>>
    /\ openPages = 0
    /\ failedPairs = {}
    /\ browserOpen = FALSE
    /\ vExit = -1

\* test-responsive.js as loaded: lines 37-40, and main() about to enter its loop
Init ==
    /\ pc = "loop"
    /\ fsys \in [FileNames -> FileStates]
    /\ fileIdx = 1
    /\ css = <<>>
    /\ analysis = NoAnalysis
    /\ passed = <<>> /\ warnings = <<>> /\ issues = <<>>
    /\ report = <<>>
    /\ exitCode = -1
    /\ VisualIdle

InLoop == pc = "loop" /\ fileIdx <= Len(files)

\* AnalyzeFile with the accumulators scoped to the file
AnalyzeFilePerFile ==
    /\ InLoop
    /\ fsys[files[fileIdx]].exists
    /\ styleMatch(fsys[files[fileIdx]].content) # <<>>
    /\ LET c == Join(styleMatch(fsys[files[fileIdx]].content))
       IN  /\ css' = c
           /\ analysis' = cssAnalysis(c)
           /\ passed' = cssPassed(c) \o elPassed(c)
           /\ warnings' = cssWarnings(c) \o elWarnings(c)
           /\ issues' = cssIssues(c)
    /\ fileIdx' = fileIdx + 1
    /\ UNCHANGED <<pc, fsys, report, exitCode, vvars>>

\* lines 355-367: the file exists and holds a <style> block
AnalyzeFile ==
    /\ InLoop
    /\ fsys[files[fileIdx]].exists
    /\ styleMatch(fsys[files[fileIdx]].content) # <<>>
    /\ LET c == Join(styleMatch(fsys[files[fileIdx]].content))
       IN  /\ css' = c
           /\ analysis' = cssAnalysis(c)
           /\ passed' = passed \o cssPassed(c) \o elPassed(c)
           /\ warnings' = warnings \o cssWarnings(c) \o elWarnings(c)
           /\ issues' = issues \o cssIssues(c)
    /\ fileIdx' = fileIdx + 1
    /\ UNCHANGED <<pc, fsys, report, exitCode, vvars>>

\* lines 357-362: the file exists and styleMatch is null
NoStyleFile ==
    /\ InLoop
    /\ fsys[files[fileIdx]].exists
    /\ styleMatch(fsys[files[fileIdx]].content) = <<>>
    /\ fileIdx' = fileIdx + 1
    /\ UNCHANGED <<pc, fsys, css, analysis, passed, warnings, issues, report, exitCode, vvars>>

\* MissingFile as a fatal error: the loop is left
MissingFileAborts ==
    /\ InLoop
    /\ ~fsys[files[fileIdx]].exists
    /\ fileIdx' = Len(files) + 1
    /\ UNCHANGED <<pc, fsys, css, analysis, passed, warnings, issues, report, exitCode, vvars>>

\* lines 368-370: the file does not exist
MissingFile ==
    /\ InLoop
    /\ ~fsys[files[fileIdx]].exists
    /\ fileIdx' = fileIdx + 1
    /\ UNCHANGED <<pc, fsys, css, analysis, passed, warnings, issues, report, exitCode, vvars>>

\* lines 373-374: after the loop, printChecklist() (output only) and printReport()
printReport ==
    /\ pc = "loop" /\ fileIdx > Len(files)
    /\ LET sc == score(Len(passed), Len(warnings), Len(issues))
       IN  report' = Append(report, [score |-> sc, statusMsg |-> statusMsg(sc)])
    /\ pc' = "exit"
    /\ UNCHANGED <<fsys, fileIdx, css, analysis, passed, warnings, issues, exitCode, vvars>>

\* line 377: process.exit
Exit ==
    /\ pc = "exit"
    /\ exitCode' = exitStatus(issues)
    /\ pc' = "exited"
    /\ UNCHANGED <<fsys, fileIdx, css, analysis, passed, warnings, issues, report, vvars>>

Next == AnalyzeFile \/ NoStyleFile \/ MissingFile \/ printReport \/ Exit

Spec == Init /\ [][Next]_vars

\* One call of analyzeCSS on any corpus, with any accumulators
InitRules ==
    /\ pc = "call"
    /\ fsys = [f \in FileNames |-> [exists |-> FALSE, content |-> <<>>]]
    /\ fileIdx = 1
    /\ css \in RuleCorpora
    /\ analysis = NoAnalysis
    /\ \E prior \in PriorFindings :
           passed = prior.p /\ warnings = prior.w /\ issues = prior.i
    /\ report = <<>>
    /\ exitCode = -1
    /\ VisualIdle

\* lines 64-167
analyzeCSS ==
    /\ pc = "call"
    /\ passed' = passed \o cssPassed(css)
    /\ warnings' = warnings \o cssWarnings(css)
    /\ issues' = issues \o cssIssues(css)
    /\ analysis' = cssAnalysis(css)
    /\ pc' = "done"
    /\ UNCHANGED <<fsys, fileIdx, css, report, exitCode, vvars>>

NextRules == analyzeCSS

SpecRules == InitRules /\ [][NextRules]_vars

----------------------------------------------------------------------------
(* The rules of analyzeCSS, one call at a time (SpecRules)                 *)

Elems(s) == {s[k] : k \in 1..Len(s)}

\* what a step has pushed on an accumulator
Appended(old, new) == SubSeq(new, Len(old) + 1, Len(new))

\* a step that is one whole call of analyzeCSS
IsCall == pc = "call" /\ pc' = "done"

\* every max-width / min-width pixel value a media prefix declares
AllBreakpointsOf(mq) ==
    LET At(p) == /\ Tok(mq, p) \in {"max-", "min-"}
                 /\ Tok(mq, p + 1) = "width:"
                 /\ NumPxEnd(mq, p + 2, 1) # 0
    IN  { ParseInt(SubSeq(mq, SkipWs(mq, p + 2), NumPxEnd(mq, p + 2, 1) - 1)) :
              p \in {q \in 1..Len(mq) : At(q)} }

DeclaredBreakpoints(content) ==
    UNION {AllBreakpointsOf(mediaQueries(content)[k]) : k \in 1..Len(mediaQueries(content))}

DeclaresMobile(content) == \E bp \in DeclaredBreakpoints(content) : bp <= 500

\* C3: a corpus whose @media prefixes declare a min-width or max-width pixel
\* breakpoint <= 500 gets the mobile Pass and no Issue; any other corpus gets exactly
\* one Issue and no mobile Pass.
C3_MobileBreakpointRule ==
    [][IsCall =>
         IF DeclaresMobile(css)
         THEN MobilePass \in Elems(Appended(passed, passed')) /\ issues' = issues
         ELSE /\ Len(issues') = Len(issues) + 1
              /\ Appended(issues, issues') = <<MobileIssue>>
              /\ MobilePass \notin Elems(Appended(passed, passed'))]_vars

StartedEmpty == passed = <<>> /\ warnings = <<>> /\ issues = <<>>

\* C4 as stated: the empty corpus with empty accumulators yields exactly the tablet
\* Warning, the mobile Issue and the overflow-x Warning, and no Pass.
C4_EmptyCorpusNoPass ==
    [][(IsCall /\ css = <<>> /\ StartedEmpty) =>
          /\ passed' = <<>>
          /\ warnings' = <<TabletWarning, OverflowWarning>>
          /\ issues' = <<MobileIssue>>]_vars

\* C4 as amended: the empty corpus with empty accumulators yields exactly four
\* Findings: the tablet Warning, the mobile Issue, the overflow-x Warning and the
\* Pass of the fixed-width rule (no width over 400px).
C4_EmptyCorpusFourFindings ==
    [][(IsCall /\ css = <<>> /\ StartedEmpty) =>
          /\ passed' = <<FixedWidthPass>>
          /\ warnings' = <<TabletWarning, OverflowWarning>>
          /\ issues' = <<MobileIssue>>]_vars

\* the call on the empty corpus has returned, having started from empty accumulators
C4_Witness ==
    /\ pc = "done" /\ css = <<>>
    /\ Len(passed) + Len(warnings) + Len(issues) = 4
    /\ analysis = [mqBreakpoints |-> <<>>, hasTablet |-> FALSE, hasMobile |-> FALSE]

\* the positions of the declarations of the property width (not max-width, not
\* min-width) with a pixel value over 400
LargeWidthDecls(content) ==
    { p \in 1..Len(content) :
        /\ content[p] = "width:"
        /\ Tok(content, p - 1) \notin {"max-", "min-"}
        /\ NumPxEnd(content, p + 1, 1) # 0
        /\ ParseInt(SubSeq(content, SkipWs(content, p + 1),
                           NumPxEnd(content, p + 1, 1) - 1)) > 400 }

IsFixedWidthWarning(m) == \E n \in 1..(Len(css) + 1) : m = FixedWidthWarning(n)

\* C5: the fixed-width Warning is pushed if and only if the corpus holds a width
\* declaration of more than 400px, and it carries the number of these declarations.
C5_FixedWidthRule ==
    [][IsCall =>
         LET n == Cardinality(LargeWidthDecls(css))
             pushed == Elems(Appended(warnings, warnings'))
         IN  /\ (n > 0) <=> (\E m \in pushed : IsFixedWidthWarning(m))
             /\ (n > 0) => FixedWidthWarning(n) \in pushed]_vars

\* a number directly followed by one of the five relative units
HasRelativeUnit(content) ==
    \E k \in 1..Len(content) :
        IsDigit(content[k]) /\ Tok(content, k + 1) \in {"vw", "vh", "rem", "em", "%"}

\* a clamp(...) expression
HasClampExpr(content) ==
    \E k \in 1..Len(content) : content[k] = "clamp" /\ Tok(content, k + 1) = "("

\* C7: the responsive-units Pass is pushed whenever the corpus holds a number with a
\* relative unit or a clamp(...) expression, whatever the units of its arguments,
\* and not otherwise.
C7_ResponsiveUnitsRule ==
    [][IsCall =>
         ((HasRelativeUnit(css) \/ HasClampExpr(css))
            <=> UnitsPass \in Elems(Appended(passed, passed')))]_vars

----------------------------------------------------------------------------
(* main() over the two files (Spec)                                        *)

\* the file holds a corpus: it exists and a <style> block is found
HasCorpus(f) == fsys[f].exists /\ styleMatch(fsys[f].content) # <<>>
CorpusOf(f) == Join(styleMatch(fsys[f].content))

\* C1: once main() has processed every file and exited, the status is 0 if and only
\* if issues is empty and 1 otherwise, whatever the number of warnings.
C1_ExitStatus ==
    pc = "exited" =>
        /\ fileIdx = Len(files) + 1
        /\ exitCode \in {0, 1}
        /\ exitCode = 0 <=> issues = <<>>

\* main() has exited with status 0 although warnings were accumulated
C1_Witness == pc = "exited" /\ exitCode = 0 /\ issues = <<>> /\ Len(warnings) > 0

\* C2: a report over zero Findings carries the score 0, not NaN.
C2_ScoreDefinedOnNoFindings ==
    \A k \in 1..Len(report) :
        Len(passed) + Len(warnings) + Len(issues) = 0 =>
            ~report[k].score.nan /\ report[k].score.value = 0

\* the Findings of the first n files of the list, in list order, the files that are
\* missing or hold no <style> block contributing nothing
RECURSIVE ExpectedPassed(_)
ExpectedPassed(n) ==
    IF n = 0 THEN <<>>
    ELSE ExpectedPassed(n - 1)
         \o (IF HasCorpus(files[n])
             THEN cssPassed(CorpusOf(files[n])) \o elPassed(CorpusOf(files[n]))
             ELSE <<>>)

RECURSIVE ExpectedWarnings(_)
ExpectedWarnings(n) ==
    IF n = 0 THEN <<>>
    ELSE ExpectedWarnings(n - 1)
         \o (IF HasCorpus(files[n])
             THEN cssWarnings(CorpusOf(files[n])) \o elWarnings(CorpusOf(files[n]))
             ELSE <<>>)

RECURSIVE ExpectedIssues(_)
ExpectedIssues(n) ==
    IF n = 0 THEN <<>>
    ELSE ExpectedIssues(n - 1)
         \o (IF HasCorpus(files[n]) THEN cssIssues(CorpusOf(files[n])) ELSE <<>>)

\* C6: a missing file adds no Finding and does not end the run: at every point of
\* main() the accumulators hold the Findings of the files before fileIdx that have
\* a corpus, in list order, and printReport has run exactly once when, and only
\* when, the loop has passed the last file.
C6_MissingFileSkipped ==
    pc \in {"loop", "exit", "exited"} =>
        /\ fileIdx \in 1..(Len(files) + 1)
        /\ passed = ExpectedPassed(fileIdx - 1)
        /\ warnings = ExpectedWarnings(fileIdx - 1)
        /\ issues = ExpectedIssues(fileIdx - 1)
        /\ Len(report) = (IF pc = "loop" THEN 0 ELSE 1)
        /\ pc # "loop" => fileIdx = Len(files) + 1

\* the first file is missing, the second one was analyzed, and the run has ended
C6_Witness ==
    /\ pc = "exited"
    /\ ~fsys[files[1]].exists
    /\ HasCorpus(files[2])
    /\ passed = cssPassed(CorpusOf(files[2])) \o elPassed(CorpusOf(files[2]))
    /\ Len(passed) > 0
    /\ Len(report) = 1

IsPrefix(s, t) == Len(s) <= Len(t) /\ SubSeq(t, 1, Len(s)) = s

\* the first file raises an Issue
FirstFileRaisesIssue == HasCorpus(files[1]) /\ cssIssues(CorpusOf(files[1])) # <<>>

\* C10: no step of the run resets or shortens passed, warnings or issues, so an
\* Issue of the first file still gives exit status 1.
C10_AccumulatorsOnlyGrow ==
    [][/\ IsPrefix(passed, passed')
       /\ IsPrefix(warnings, warnings')
       /\ IsPrefix(issues, issues')
       /\ (pc' = "exited" /\ FirstFileRaisesIssue) => exitCode' = 1]_vars

\* the first file raised an Issue, the second one was analyzed and is clean, and
\* the run has ended with status 1
C10_Witness ==
    /\ pc = "exited"
    /\ FirstFileRaisesIssue
    /\ HasCorpus(files[2]) /\ cssIssues(CorpusOf(files[2])) = <<>>
    /\ exitCode = 1

----------------------------------------------------------------------------
(* captureScreenshots (src/test-visual.js:59-217)                          *)

viewports == <<
    [name |-> "iPhone-SE", width |-> 375, height |-> 667],
    [name |-> "iPhone-12", width |-> 390, height |-> 844],
    [name |-> "iPhone-14-Pro-Max", width |-> 430, height |-> 932],
    [name |-> "Pixel-7", width |-> 412, height |-> 915],
    [name |-> "iPad-Mini", width |-> 768, height |-> 1024],
    [name |-> "iPad-Pro", width |-> 1024, height |-> 1366],
    [name |-> "Desktop-HD", width |-> 1280, height |-> 800],
    [name |-> "Desktop-FHD", width |-> 1920, height |-> 1080],
    [name |-> "Desktop-2K", width |-> 2560, height |-> 1440] >>

pages == <<[name |-> "index", url |-> "index.html"],
           [name |-> "confirmacao", url |-> "confirmacao.html"]>>

\* the minimum side of a touch target, line 153
MinTouchTarget == 44

\* What a loaded page may look like: the scroll width of the document, the right
\* edges of the elements of line 130, and the clickable elements of line 149.
Renderings ==
    { [scrollWidth |-> 375,
       elements |-> <<[className |-> "form-section", right |-> 360]>>,
       clickables |-> <<[tagName |-> "BUTTON", id |-> "", className |-> "submit-btn",
                         width |-> 44, height |-> 44]>>],
      [scrollWidth |-> 400,
       elements |-> <<[className |-> "benefit-card", right |-> 400],
                      [className |-> "text-block", right |-> 380]>>,
       clickables |-> <<[tagName |-> "A", id |-> "", className |-> "",
                         width |-> 43, height |-> 44],
                        [tagName |-> "INPUT", id |-> "terms-checkbox", className |-> "",
                         width |-> 20, height |-> 20]>>],
      [scrollWidth |-> 375,
       elements |-> <<>>,
       clickables |-> <<[tagName |-> "BUTTON", id |-> "", className |-> "submit-btn",
                         width |-> 44, height |-> 43],
                        [tagName |-> "INPUT", id |-> "", className |-> "hidden-field",
                         width |-> 0, height |-> 0]>>] }

\* the bound on the length of results.issues
MaxIssues == 2

\* lines 119-121, with clientWidth the width of the viewport
hasHorizontalScroll(r, viewport) == r.scrollWidth > viewport.width

\* elements.join(', ')
RECURSIVE JoinNames(_)
JoinNames(ns) ==
    IF ns = <<>> THEN ""
    ELSE IF Len(ns) = 1 THEN ns[1]
    ELSE ns[1] \o ", " \o JoinNames(Tail(ns))

\* lines 128-140, with innerWidth the width of the viewport
RECURSIVE elementsCutOff(_, _)
elementsCutOff(els, viewport) ==
    IF els = <<>> THEN <<>>
    ELSE PushIf(Head(els).right > viewport.width, Head(els).className)
         \o elementsCutOff(Tail(els), viewport)

\* line 154: el.id || el.className || el.tagName
IdOf(el) == IF el.id # "" THEN el.id ELSE IF el.className # "" THEN el.className ELSE el.tagName

\* id.includes('checkbox') for the names of the model
IncludesCheckbox(id) == id \in {"checkbox", "terms-checkbox", "checkbox-label"}

\* the test of line 153
IsSmallTarget(el) ==
    /\ el.width > 0 /\ el.height > 0
    /\ (el.width < MinTouchTarget \/ el.height < MinTouchTarget)

\* lines 147-162
RECURSIVE smallTouchTargetsOf(_)
smallTouchTargetsOf(cs) ==
    IF cs = <<>> THEN <<>>
    ELSE PushIf(IsSmallTarget(Head(cs)) /\ ~IncludesCheckbox(IdOf(Head(cs))),
                Head(cs).tagName \o "(" \o ToString(Head(cs).width) \o "x"
                \o ToString(Head(cs).height) \o ")")
         \o smallTouchTargetsOf(Tail(cs))

\* an entry of results.issues: `${pageConfig.name} @ ${viewport.name}: ${detail}`,
\* kind naming the push that made it (line 124, 143 or 186)
IssueOf(kind, detail) ==
    [page |-> pages[pageIdx].name, viewport |-> viewports[vpIdx].name,
     kind |-> kind, detail |-> detail]

\* the pushes of lines 123-125 and 142-144 for a rendering
structuralIssues(r) ==
    PushIf(hasHorizontalScroll(r, viewports[vpIdx]),
           IssueOf("scroll", "Scroll horizontal detectado"))
    \o PushIf(Len(elementsCutOff(r.elements, viewports[vpIdx])) > 0,
              IssueOf("cutoff", "Elementos cortados: "
                                \o JoinNames(elementsCutOff(r.elements, viewports[vpIdx]))))

\* line 216
visualExitStatus(iss) == IF Len(iss) > 0 THEN 1 ELSE 0

AnalyzerIdle ==
    /\ pc = "idle"
    /\ fsys = [f \in FileNames |-> [exists |-> FALSE, content |-> <<>>]]
    /\ fileIdx = 1
    /\ css = <<>>
    /\ analysis = NoAnalysis
    /\ passed = <<>> /\ warnings = <<>> /\ issues = <<>>
    /\ report = <<>>
    /\ exitCode = -1

InitVisual == AnalyzerIdle /\ VisualIdle

\* lines 60-87: the screenshots directory, puppeteer.launch, results
Launch ==
    /\ vpc = "idle"
    /\ browserOpen' = TRUE
    /\ results' = [total |-> 0, captured |-> 0, issues |-> <<>>]
    /\ pageIdx' = 1 /\ vpIdx' = 1
    /\ vpc' = "loop"
    /\ UNCHANGED <<smallTouchTargets, openPages, failedPairs, vExit, avars>>

\* lines 94-103: results.total++, browser.newPage(), page.setViewport
OpenPage ==
    /\ vpc = "loop"
    /\ results' = [results EXCEPT !.total = @ + 1]
    /\ openPages' = openPages + 1
    /\ smallTouchTargets' = <<>>
    /\ vpc' = "goto"
    /\ UNCHANGED <<pageIdx, vpIdx, failedPairs, browserOpen, vExit, avars>>

\* line 95 throws: outside the inner try, so the finally of line 192 closes the
\* browser and the rejection reaches the catch of line 229
NewPageFails ==
    /\ vpc = "loop"
    /\ results' = [results EXCEPT !.total = @ + 1]
    /\ browserOpen' = FALSE
    /\ vpc' = "rejected"
    /\ UNCHANGED <<pageIdx, vpIdx, smallTouchTargets, openPages, failedPairs, vExit, avars>>

ErrorMessages == {"net::ERR_FILE_NOT_FOUND", "Navigation timeout of 30000 ms exceeded"}

CurrentPair == <<pageIdx, vpIdx>>

\* page.goto with the rethrow of an uncaught error: the run is left
NavFailsUncaught ==
    /\ vpc = "goto"
    /\ Len(results.issues) < MaxIssues
    /\ failedPairs' = failedPairs \cup {CurrentPair}
    /\ browserOpen' = FALSE
    /\ vpc' = "rejected"
    /\ UNCHANGED <<pageIdx, vpIdx, results, smallTouchTargets, openPages, vExit, avars>>

\* lines 106-109 throw, lines 184-187 catch: one issue string, no capture
NavFails ==
    /\ vpc = "goto"
    /\ Len(results.issues) < MaxIssues
    /\ \E msg \in ErrorMessages :
           results' = [results EXCEPT !.issues = Append(@, IssueOf("error", msg))]
    /\ failedPairs' = failedPairs \cup {CurrentPair}
    /\ vpc' = "close"
    /\ UNCHANGED <<pageIdx, vpIdx, smallTouchTargets, openPages, browserOpen, vExit, avars>>

\* lines 106-182: the page loads, the three checks run, both screenshots are taken
PageLoads ==
    /\ vpc = "goto"
    /\ \E r \in Renderings :
           /\ Len(results.issues) + Len(structuralIssues(r)) <= MaxIssues
              \/ structuralIssues(r) = <<>>
           /\ results' = [results EXCEPT !.issues = @ \o structuralIssues(r),
                                         !.captured = @ + 1]
           /\ smallTouchTargets' = smallTouchTargetsOf(r.clickables)
    /\ vpc' = "close"
    /\ UNCHANGED <<pageIdx, vpIdx, openPages, failedPairs, browserOpen, vExit, avars>>

\* lines 106-176, page.screenshot throws after the checks, lines 184-187 catch
CaptureFails ==
    /\ vpc = "goto"
    /\ \E r \in Renderings :
           /\ Len(results.issues) + Len(structuralIssues(r)) < MaxIssues
           /\ results' = [results EXCEPT
                  !.issues = @ \o structuralIssues(r)
                             \o <<IssueOf("error", "Protocol error (Page.captureScreenshot)")>>]
           /\ smallTouchTargets' = smallTouchTargetsOf(r.clickables)
    /\ failedPairs' = failedPairs \cup {CurrentPair}
    /\ vpc' = "close"
    /\ UNCHANGED <<pageIdx, vpIdx, openPages, browserOpen, vExit, avars>>

\* line 189 and the two loop headers
ClosePage ==
    /\ vpc = "close"
    /\ openPages' = openPages - 1
    /\ IF vpIdx < Len(viewports)
       THEN vpIdx' = vpIdx + 1 /\ pageIdx' = pageIdx /\ vpc' = "loop"
       ELSE IF pageIdx < Len(pages)
            THEN vpIdx' = 1 /\ pageIdx' = pageIdx + 1 /\ vpc' = "loop"
            ELSE vpIdx' = vpIdx /\ pageIdx' = pageIdx /\ vpc' = "finally"
    /\ UNCHANGED <<results, smallTouchTargets, failedPairs, browserOpen, vExit, avars>>

\* lines 192-194 on the normal path
CloseBrowser ==
    /\ vpc = "finally"
    /\ browserOpen' = FALSE
    /\ vpc' = "report"
    /\ UNCHANGED <<pageIdx, vpIdx, results, smallTouchTargets, openPages, failedPairs, vExit, avars>>

\* lines 196-216: the final report and process.exit
ExitVisual ==
    /\ vpc = "report"
    /\ vExit' = visualExitStatus(results.issues)
    /\ vpc' = "exited"
    /\ UNCHANGED <<pageIdx, vpIdx, results, smallTouchTargets, openPages, failedPairs,
                   browserOpen, avars>>

\* lines 229-232: the rejection of captureScreenshots()
ExitRejected ==
    /\ vpc = "rejected"
    /\ vExit' = 1
    /\ vpc' = "failed"
    /\ UNCHANGED <<pageIdx, vpIdx, results, smallTouchTargets, openPages, failedPairs,
                   browserOpen, avars>>

NextVisual ==
    \/ Launch \/ OpenPage \/ NewPageFails \/ NavFails \/ PageLoads \/ CaptureFails
    \/ ClosePage \/ CloseBrowser \/ ExitVisual \/ ExitRejected

SpecVisual == InitVisual /\ [][NextVisual]_vars

NumPairs == Len(pages) * Len(viewports)

ErrorIssues(iss) == {k \in 1..Len(iss) : iss[k].kind = "error"}

\* C8: a failure inside the try of one page/viewport pair is caught there: it adds
\* exactly one error entry to results.issues and no capture, the page is closed
\* next, and the run goes through all 18 pairs, ending with total = 18 and
\* captured = total minus the number of failed pairs.
C8_NavigationFailureIsLocal ==
    [][/\ (failedPairs' # failedPairs) =>
              /\ vpc' = "close"
              /\ Cardinality(ErrorIssues(results'.issues))
                     = Cardinality(ErrorIssues(results.issues)) + 1
              /\ results'.issues[Len(results'.issues)].page = pages[pageIdx].name
              /\ results'.issues[Len(results'.issues)].viewport = viewports[vpIdx].name
              /\ results'.captured = results.captured
              /\ results'.total = results.total
       /\ (vpc = "close" /\ vpc' # "close") => openPages' = 0
       /\ (vpc' = "report") =>
              /\ results'.total = NumPairs
              /\ results'.total = 18
              /\ results'.captured = results'.total - Cardinality(failedPairs')
              /\ Cardinality(ErrorIssues(results'.issues)) = Cardinality(failedPairs')]_vars

\* the run ended normally after a navigation failure of the first pair, with all
\* later pairs attempted and captured
C8_Witness ==
    /\ vpc = "exited"
    /\ failedPairs = {<<1, 1>>}
    /\ results.total = 18 /\ results.captured = 17
    /\ Len(results.issues) = 1 /\ results.issues[1].detail \in ErrorMessages
    /\ openPages = 0 /\ vExit = 1

\* an issue of results.issues made by a touch-target check of the current pair
HasTouchFinding ==
    \E k \in 1..Len(results.issues) :
        /\ results.issues[k].page = pages[pageIdx].name
        /\ results.issues[k].viewport = viewports[vpIdx].name
        /\ results.issues[k].kind \notin {"scroll", "cutoff", "error"}

\* C9: when a loaded pair has a visible clickable element under 44 wide or high,
\* the report holds a touch-target finding for the pair (none for 44x44), and the
\* run then exits with status 1.
C9_TouchTargetsRecorded ==
    /\ (vpc = "close" /\ CurrentPair \notin failedPairs) =>
           (smallTouchTargets # <<>> <=> HasTouchFinding)
    /\ (vpc = "exited" /\ smallTouchTargets # <<>>) => vExit = 1

----------------------------------------------------------------------------
(* analyzeElements, one call at a time (SpecElements)                      *)

\* .logo { }
BlockOf(selector) == <<selector, " ", "{", "}">>

\* a corpus with a declaration block for every catalog selector, from entry n on
RECURSIVE AllBlocksFrom(_)
AllBlocksFrom(n) ==
    IF n > Len(criticalElements) THEN <<>>
    ELSE BlockOf(criticalElements[n].selector) \o AllBlocksFrom(n + 1)

ElementFragments ==
    { Media1("max-", 480), <<"}">>,
      BlockOf(".logo"), BlockOf(".hero"), BlockOf(".container"),
      BlockOf(".hero-title"), BlockOf(".partnership-container"),
      <<".logo", "{", "color:", "red", ";">>,
      <<".submit-btn", ",">>,
      <<".benefit-card", "\n", "{", "display:", "flex", "}">> }

RECURSIVE ElementCorporaOf(_)
ElementCorporaOf(n) ==
    IF n = 0 THEN {<<>>}
    ELSE LET prev == ElementCorporaOf(n - 1)
         IN  prev \cup {c \o f : c \in prev, f \in ElementFragments}

ElementCorpora ==
    ElementCorporaOf(MaxFrags)
    \cup {AllBlocksFrom(1), AllBlocksFrom(1) \o Media1("max-", 768) \o <<".logo", "}">>}

InitElements ==
    /\ pc = "call"
    /\ fsys = [f \in FileNames |-> [exists |-> FALSE, content |-> <<>>]]
    /\ fileIdx = 1
    /\ css \in ElementCorpora
    /\ analysis = NoAnalysis
    /\ \E prior \in PriorFindings :
           passed = prior.p /\ warnings = prior.w /\ issues = prior.i
    /\ report = <<>>
    /\ exitCode = -1
    /\ VisualIdle

\* lines 172-219
analyzeElements ==
    /\ pc = "call"
    /\ passed' = passed \o elPassed(css)
    /\ warnings' = warnings \o elWarnings(css)
    /\ pc' = "done"
    /\ UNCHANGED <<fsys, fileIdx, css, analysis, issues, report, exitCode, vvars>>

NextElements == analyzeElements

SpecElements == InitElements /\ [][NextElements]_vars

\* the selector has a declaration block: the selector, white space, "{" and a later "}"
DeclaresBlock(content, selector) ==
    \E a \in 1..Len(content) : \E b \in (a + 1)..Len(content) : \E c \in (b + 1)..Len(content) :
        /\ content[a] = selector /\ content[b] = "{" /\ content[c] = "}"
        /\ \A k \in (a + 1)..(b - 1) : IsWs(content[k])

\* the bare name occurs in a fragment of the split on "@media" after the first one
NameAfterFirstMedia(content, bare) ==
    \E k \in 1..Len(content) :
        /\ Includes(content[k], bare)
        /\ \E m \in 1..(k - 1) : content[m] = "@media"

\* the catalog entries that have a declaration block in the corpus
WithBlock(content) ==
    {n \in 1..Len(criticalElements) : DeclaresBlock(content, criticalElements[n].selector)}

\* per corpus: one Finding for each catalog selector that has a declaration block, a
\* Pass if its bare name occurs after the first "@media" and a Warning otherwise,
\* nothing for the other selectors, and nothing on issues
OneFindingPerBlock ==
    LET newPassed == Appended(passed, passed')
        newWarnings == Appended(warnings, warnings')
    IN  /\ IsPrefix(passed, passed') /\ IsPrefix(warnings, warnings')
        /\ issues' = issues
        /\ Len(newPassed) + Len(newWarnings) = Cardinality(WithBlock(css))
        /\ \A n \in 1..Len(criticalElements) :
               LET el == criticalElements[n]
                   isPass == ElementPass(el) \in Elems(newPassed)
                   isWarning == ElementWarning(el) \in Elems(newWarnings)
               IN  IF n \in WithBlock(css)
                   THEN /\ isPass <=> NameAfterFirstMedia(css, el.bare)
                        /\ isWarning <=> ~NameAfterFirstMedia(css, el.bare)
                   ELSE ~isPass /\ ~isWarning

\* C11 as stated: the catalog has fourteen class selectors (a corpus with a block
\* for every catalog selector gets fourteen Findings), and per corpus one Finding is
\* pushed for each catalog selector with a declaration block, a Pass if the bare
\* name occurs after the first "@media", a Warning otherwise, never an Issue.
C11_FourteenSelectors ==
    [][IsCall =>
          /\ OneFindingPerBlock
          /\ Len(criticalElements) = 14
          /\ (WithBlock(css) = 1..Len(criticalElements)) =>
                 Len(Appended(passed, passed')) + Len(Appended(warnings, warnings')) = 14]_vars

\* C11 as amended: the catalog has ten class selectors (a corpus with a block for
\* every catalog selector gets ten Findings), and per corpus one Finding is pushed
\* for each catalog selector with a declaration block, a Pass if the bare name
\* occurs after the first "@media", a Warning otherwise, never an Issue.
C11_TenSelectors ==
    [][IsCall =>
          /\ OneFindingPerBlock
          /\ Len(criticalElements) = 10
          /\ (WithBlock(css) = 1..Len(criticalElements)) =>
                 Len(Appended(passed, passed')) + Len(Appended(warnings, warnings')) = 10]_vars

\* analyzeElements has returned on a corpus with a block for every catalog selector
\* and the name logo after "@media": one Pass and nine Warnings were pushed
C11_Witness ==
    /\ pc = "done"
    /\ WithBlock(css) = 1..Len(criticalElements)
    /\ NameAfterFirstMedia(css, "logo")
    /\ Len(passed) = 1 /\ passed[1] = ElementPass(criticalElements[3])
    /\ Len(warnings) = 9
    /\ issues = <<>>

----------------------------------------------------------------------------
(* printReport over any accumulated counts (SpecReport)                    *)

\* the bound on the length of each accumulator when printReport is called
MaxCount == 12

\* an accumulator holding n Findings
Filled(n, msg) == [k \in 1..n |-> msg]

InitReport ==
    /\ pc = "loop"
    /\ fsys = [f \in FileNames |-> [exists |-> FALSE, content |-> <<>>]]
    /\ fileIdx = Len(files) + 1
    /\ css = <<>>
    /\ analysis = NoAnalysis
    /\ \E np \in 0..MaxCount : passed = Filled(np, LayoutPass)
    /\ \E nw \in 0..MaxCount : warnings = Filled(nw, OverflowWarning)
    /\ \E ni \in 0..MaxCount : issues = Filled(ni, MobileIssue)
    /\ report = <<>>
    /\ exitCode = -1
    /\ VisualIdle

NextReport == printReport \/ Exit

SpecReport == InitReport /\ [][NextReport]_vars

Excellent == "EXCELENTE! Responsividade OK"
Good == "BOM, mas pode melhorar"
NeedsWork == "PRECISA DE MELHORIAS"

\* C12: with at least one Finding the score of the report is the integer nearest to
\* 100 * |passed| / (|passed| + |warnings| + |issues|), halves rounded up, it lies
\* in 0..100, and the banner is Excellent exactly for score >= 90, Good exactly for
\* 70 <= score < 90 and NeedsWork exactly for score < 70.
C12_ScoreAndTier ==
    \A k \in 1..Len(report) :
        LET p == Len(passed)
            t == Len(passed) + Len(warnings) + Len(issues)
            sc == report[k].score
            msg == report[k].statusMsg
        IN  t >= 1 =>
                /\ ~sc.nan
                /\ sc.value \in 0..100
                /\ 2 * t * sc.value <= 200 * p + t
                /\ 200 * p + t < 2 * t * (sc.value + 1)
                /\ msg \in {Excellent, Good, NeedsWork}
                /\ msg = Excellent <=> sc.value >= 90
                /\ msg = Good <=> (sc.value >= 70 /\ sc.value < 90)
                /\ msg = NeedsWork <=> sc.value < 70

\* printReport has run on 7 Passes and 1 Warning: 87.5 is rounded up to 88, Good
C12_Witness ==
    /\ Len(report) = 1
    /\ Len(passed) = 7 /\ Len(warnings) = 1 /\ Len(issues) = 0
    /\ report[1].score = [nan |-> FALSE, value |-> 88]
    /\ report[1].statusMsg = Good

====
